---------------------------- MODULE Spec2Model ----------------------------
(***************************************************************************)
(* CryptFyles: hybrid (RSA + AES-GCM) encrypted file sharing in groups.    *)
(*                                                                         *)
(* The model follows the Django views of src/users, src/groups and         *)
(* src/files.  Byte strings are sequences of numbers in 0..255.  The       *)
(* cryptographic primitives of the `cryptography` package are modelled as  *)
(* scaled-down computable ciphers on such sequences that keep the          *)
(* properties the package documents: decryption inverts encryption under   *)
(* the matching key, and the integrity check (GCM tag, OAEP padding,       *)
(* Fernet HMAC) accepts exactly what was produced under the same key.      *)
(* Random draws (os.urandom, key generation) are nondeterministic choices; *)
(* key material is drawn fresh.  A 16-byte salt and a 32-byte AES key are  *)
(* one byte each here, a 12-byte nonce is three.                           *)
(***************************************************************************)
EXTENDS Integers, Sequences, FiniteSets, TLC

(***************************************************************************)
(* Bounds of the model.                                                    *)
(***************************************************************************)
MaxUsers == 2
MaxGroups == 1
MaxFiles == 1
MaxSessions == 1
MaxLen == 1

(***************************************************************************)
(* Python values.                                                          *)
(***************************************************************************)
\* Python's None where a byte string or text is expected.
None == <<-1>>

\* Python truthiness of an optional byte string / text: None and "" are falsy.
Truthy(b) == b # None /\ Len(b) > 0

\* Result of a call that may raise: ok with a value, or the exception's text.
Ok(v) == [ok |-> TRUE, val |-> v, exc |-> ""]
Raise(e) == [ok |-> FALSE, val |-> None, exc |-> e]

(***************************************************************************)
(* base64 as encode_for_db / decode_from_db use it.  Text is a sequence of *)
(* base64 symbols: 0..63 index the alphabet, 64 is the pad '='.            *)
(***************************************************************************)
Pad == 64

RECURSIVE b64encode(_)
b64encode(b) ==
    IF Len(b) = 0 THEN <<>>
    ELSE IF Len(b) = 1 THEN
        << b[1] \div 4, (b[1] % 4) * 16, Pad, Pad >>
    ELSE IF Len(b) = 2 THEN
        << b[1] \div 4, (b[1] % 4) * 16 + (b[2] \div 16), (b[2] % 16) * 4, Pad >>
    ELSE
        << b[1] \div 4, (b[1] % 4) * 16 + (b[2] \div 16),
           (b[2] % 16) * 4 + (b[3] \div 64), b[3] % 64 >>
        \o b64encode(SubSeq(b, 4, Len(b)))

\* binascii.a2b_base64 (non-strict): scan with quad position, pad count and
\* the bits left over from the previous symbol; bytes are emitted as they
\* complete; a full pad sequence ends the scan; a dangling quad is an error.
RECURSIVE a2b_base64(_, _, _, _, _, _)
a2b_base64(s, i, quad_pos, pads, leftchar, out) ==
    IF i > Len(s) THEN
        IF quad_pos = 0 THEN Ok(out) ELSE Raise("Incorrect padding")
    ELSE IF s[i] = Pad THEN
        IF quad_pos >= 2 /\ quad_pos + pads + 1 >= 4 THEN Ok(out)
        ELSE a2b_base64(s, i + 1, quad_pos,
                        IF quad_pos >= 2 THEN pads + 1 ELSE pads, leftchar, out)
    ELSE IF quad_pos = 0 THEN
        a2b_base64(s, i + 1, 1, 0, s[i], out)
    ELSE IF quad_pos = 1 THEN
        a2b_base64(s, i + 1, 2, 0, s[i] % 16,
                   Append(out, leftchar * 4 + (s[i] \div 16)))
    ELSE IF quad_pos = 2 THEN
        a2b_base64(s, i + 1, 3, 0, s[i] % 4,
                   Append(out, leftchar * 16 + (s[i] \div 4)))
    ELSE
        a2b_base64(s, i + 1, 0, 0, 0, Append(out, leftchar * 64 + s[i]))

b64decode(s) == a2b_base64(s, 1, 0, 0, 0, <<>>)

\* Fault of the encoder: the '=' padding is stripped from the text.
encode_for_db_unpadded(data) == SelectSeq(b64encode(data), LAMBDA x : x # Pad)

\* encode_for_db(data): base64.b64encode(data).decode('utf-8')
encode_for_db(data) == b64encode(data)

\* decode_from_db(data_str): base64.b64decode(data_str.encode('utf-8'))
decode_from_db(data_str) == b64decode(data_str)

(***************************************************************************)
(* AES-256-GCM (FileCipher).  The key stream of (key, nonce) is added to   *)
(* the payload byte by byte; the tag authenticates key, nonce and          *)
(* ciphertext and is one-to-one in all three.  A nonce is three bytes (as  *)
(* the 12 of the code, a whole number of base64 quads); the shortest tag   *)
(* is four bytes (as the 16 of the code, one byte over a whole number of   *)
(* quads).                                                                 *)
(***************************************************************************)
RECURSIVE SeqSum(_)
SeqSum(b) == IF Len(b) = 0 THEN 0 ELSE b[1] + SeqSum(Tail(b))

KeyStream(k, n, i) == (41 * k[1] + 13 * SeqSum(n) + 7 * i) % 256

GcmTag(k, n, c) ==
    << (97 * k[1] + Len(c)) % 256 >>
    \o [i \in 1..Len(n) |-> (n[i] + 29 * k[1] + i) % 256]
    \o [i \in 1..Len(c) |-> (c[i] + 5 * k[1] + i) % 256]

\* encrypt_file_aes(file_data, aes_key) with the nonce os.urandom drew.
encrypt_file_aes(file_data, aes_key, nonce) ==
    LET ciphertext == [i \in 1..Len(file_data) |->
                          (file_data[i] + KeyStream(aes_key, nonce, i)) % 256]
    IN  [ciphertext |-> ciphertext, nonce |-> nonce,
         tag |-> GcmTag(aes_key, nonce, ciphertext)]

\* Fault of the decryptor: the plaintext is returned without finalize()'s
\* verification of the tag.
decrypt_file_aes_unverified(ciphertext, aes_key, nonce, tag) ==
    IF Len(aes_key) # 1 THEN Raise("Invalid key size")
    ELSE IF Len(nonce) < 2 THEN Raise("Nonce must be between 8 and 128 bytes")
    ELSE IF Len(tag) < 4 THEN Raise("Authentication tag must be 16 bytes or longer")
    ELSE Ok([i \in 1..Len(ciphertext) |->
                (ciphertext[i] - KeyStream(aes_key, nonce, i)) % 256])

\* decrypt_file_aes(ciphertext, aes_key, nonce, tag): the constructors
\* reject a bad key, nonce or tag length; finalize() verifies the tag and
\* raises InvalidTag; else the plaintext is returned.
decrypt_file_aes(ciphertext, aes_key, nonce, tag) ==
    IF Len(aes_key) # 1 THEN Raise("Invalid key size")
    ELSE IF Len(nonce) < 2 THEN Raise("Nonce must be between 8 and 128 bytes")
    ELSE IF Len(tag) < 4 THEN Raise("Authentication tag must be 16 bytes or longer")
    ELSE IF tag # GcmTag(aes_key, nonce, ciphertext) THEN Raise("InvalidTag")
    ELSE Ok([i \in 1..Len(ciphertext) |->
                (ciphertext[i] - KeyStream(aes_key, nonce, i)) % 256])

(***************************************************************************)
(* RSA-2048 key pairs and OAEP wrapping (KeyPairService, KeyWrapper).  A   *)
(* PEM is a header byte followed by the number of the key pair.            *)
(***************************************************************************)
PubHdr == 80
PrivHdr == 82

private_pem(kp) == << PrivHdr, kp >>
public_pem(kp) == << PubHdr, kp >>

\* Fault of the wrapping: the key is handed back as it came, unencrypted.
encrypt_aes_key_with_rsa_unwrapped(aes_key, public_key_pem) ==
    IF Len(public_key_pem) # 2 \/ public_key_pem[1] # PubHdr
    THEN Raise("Unable to load PEM file")
    ELSE Ok(aes_key)

\* encrypt_aes_key_with_rsa(aes_key, public_key_pem): load_pem_public_key
\* raises on anything that is not a public-key PEM.
encrypt_aes_key_with_rsa(aes_key, public_key_pem) ==
    IF Len(public_key_pem) # 2 \/ public_key_pem[1] # PubHdr
    THEN Raise("Unable to load PEM file")
    ELSE Ok(<< (public_key_pem[2] * 17 + 3) % 256,
               (aes_key[1] + 59 * public_key_pem[2]) % 256 >>)

\* Fault of the unwrapping: the OAEP padding is not checked, the key is
\* computed under whatever private key is given.
decrypt_aes_key_with_rsa_unpadded(encrypted_aes_key, private_key_pem) ==
    IF Len(private_key_pem) # 2 \/ private_key_pem[1] # PrivHdr
    THEN Raise("Could not deserialize key data")
    ELSE IF Len(encrypted_aes_key) # 2 THEN Raise("Decryption failed")
    ELSE Ok(<< (encrypted_aes_key[2] - 59 * private_key_pem[2]) % 256 >>)

\* decrypt_aes_key_with_rsa(encrypted_aes_key, private_key_pem):
\* load_pem_private_key raises on a bad PEM, decrypt raises when the OAEP
\* padding does not check under this private key.
decrypt_aes_key_with_rsa(encrypted_aes_key, private_key_pem) ==
    IF Len(private_key_pem) # 2 \/ private_key_pem[1] # PrivHdr
    THEN Raise("Could not deserialize key data")
    ELSE IF Len(encrypted_aes_key) # 2
            \/ encrypted_aes_key[1] # (private_key_pem[2] * 17 + 3) % 256
    THEN Raise("Decryption failed")
    ELSE Ok(<< (encrypted_aes_key[2] - 59 * private_key_pem[2]) % 256 >>)

(***************************************************************************)
(* PBKDF2 + Fernet sealing of the private key (PrivateKeyVault).           *)
(***************************************************************************)
\* PBKDF2HMAC(...).derive(password) under the salt.
derive(password, salt) == (password * 8 + salt[1] * 3 + 1) % 256

\* Fernet(key).encrypt: ciphertext followed by its HMAC under the key.
FernetMac(key, body) ==
    << (key * 7 + Len(body)) % 256 >>
    \o [i \in 1..Len(body) |-> (body[i] + 2 * key + i) % 256]

FernetEncrypt(key, data) ==
    LET body == [i \in 1..Len(data) |-> (data[i] + key) % 256]
    IN  body \o FernetMac(key, body)

\* Fault of the unsealing: the token is decrypted without verifying its HMAC.
FernetDecrypt_unverified(key, token) ==
    IF Len(token) % 2 # 1 THEN Raise("InvalidToken")
    ELSE LET n == (Len(token) - 1) \div 2
             body == SubSeq(token, 1, n)
         IN  Ok([i \in 1..n |-> (body[i] - key) % 256])

\* Fernet(key).decrypt: InvalidToken unless the HMAC verifies.
FernetDecrypt(key, token) ==
    IF Len(token) % 2 # 1 THEN Raise("InvalidToken")
    ELSE LET n == (Len(token) - 1) \div 2
             body == SubSeq(token, 1, n)
         IN  IF SubSeq(token, n + 1, Len(token)) # FernetMac(key, body)
             THEN Raise("InvalidToken")
             ELSE Ok([i \in 1..n |-> (body[i] - key) % 256])

\* Fault of the sealing: the private key is stored base64-encoded, unsealed.
_encrypt_private_key_unsealed(private_key_bytes, password, salt) ==
    b64encode(private_key_bytes)

\* CustomUser._encrypt_private_key(private_key_bytes, password) with the
\* salt os.urandom drew.
_encrypt_private_key(private_key_bytes, password, salt) ==
    b64encode(salt \o FernetEncrypt(derive(password, salt), private_key_bytes))

\* Fault of the unsealing: a token that does not verify gives empty bytes
\* where an absent or undecodable blob gives None.
decrypt_private_key_by_cause(encrypted_private_key, password) ==
    IF ~Truthy(encrypted_private_key) THEN None
    ELSE LET combined == b64decode(encrypted_private_key)
         IN  IF ~combined.ok \/ Len(combined.val) < 1 THEN None
             ELSE LET salt == SubSeq(combined.val, 1, 1)
                      encrypted == SubSeq(combined.val, 2, Len(combined.val))
                      r == FernetDecrypt(derive(password, salt), encrypted)
                  IN  IF r.ok THEN r.val ELSE <<>>

\* CustomUser.decrypt_private_key(password): None when the blob is absent
\* and when anything in the try block raises.
decrypt_private_key(encrypted_private_key, password) ==
    IF ~Truthy(encrypted_private_key) THEN None
    ELSE LET combined == b64decode(encrypted_private_key)
         IN  IF ~combined.ok \/ Len(combined.val) < 1 THEN None
             ELSE LET salt == SubSeq(combined.val, 1, 1)
                      encrypted == SubSeq(combined.val, 2, Len(combined.val))
                      r == FernetDecrypt(derive(password, salt), encrypted)
                  IN  IF r.ok THEN r.val ELSE None

\* CustomUser.get_public_key_bytes()
get_public_key_bytes(public_key) ==
    IF Truthy(public_key) THEN public_key ELSE None


(***************************************************************************)
(* Inputs and random draws.                                                *)
(***************************************************************************)
Users == 1..MaxUsers
Sessions == 1..MaxSessions
\* Passwords typed into the login form, and those chosen at registration.
Passwords == {1, 2}
ChosenPasswords == {1}
Salts == {<<3>>}
Nonces == {<<5, 130, 77>>}
AesKeys == {<<k>> : k \in 1..(MaxFiles + 1)}
PlainBytes == {7, 200}
Plaintexts == UNION {[1..n -> PlainBytes] : n \in 0..MaxLen}

\* A public_key text that is no PEM (typed into the admin's user form).
MalformedKey == <<0>>

(***************************************************************************)
(* State.                                                                  *)
(*   users     CustomUser rows, by id (ids follow date_joined)             *)
(*   groups    FileGroup rows, by id                                       *)
(*   files     EncryptedFile rows, by id                                   *)
(*   disk      the stored .enc file of each file id (None: no such file)   *)
(*   keys      FileEncryptionKey rows                                      *)
(*   session   per browser session: the authenticated user (0: anonymous)  *)
(*             and the 'private_key' entry                                 *)
(*   resp      the response of the last request                            *)
(*   uploaded  per file id, what upload_file held in its locals: payload,  *)
(*             AES key, encrypt_file_aes's result, the members iterated    *)
(*             and the wrapped keys before encoding (history)              *)
(***************************************************************************)
VARIABLES users, groups, files, disk, keys, session, resp, uploaded

vars == <<users, groups, files, disk, keys, session, resp, uploaded>>

db == <<users, groups, files, disk, keys>>

NoResp ==
    [op |-> "", sess |-> 0, group |-> 0, file |-> 0,
     status |-> "", msg |-> "", exc |-> "", body |-> None, count |-> 0]

Response(op, s, status, msg) ==
    [NoResp EXCEPT !.op = op, !.sess = s, !.status = status, !.msg = msg]

Anonymous == [user |-> 0, private_key |-> None]

Init ==
    /\ users = <<>>
    /\ groups = <<>>
    /\ files = <<>>
    /\ disk = <<>>
    /\ keys = {}
    /\ session = [s \in Sessions |-> Anonymous]
    /\ resp = NoResp
    /\ uploaded = <<>>

\* request.user.is_authenticated
is_authenticated(s) == session[s].user # 0

\* @login_required: an anonymous request is redirected to the login page.
LoginRequired(s) ==
    /\ ~is_authenticated(s)
    /\ resp' = Response("login_required", s, "redirect", "")
    /\ UNCHANGED <<db, session, uploaded>>

\* get_object_or_404(FileGroup, pk=g)
GroupExists(g) == g \in 1..Len(groups) /\ groups[g].alive

\* get_object_or_404(EncryptedFile, pk=f)
FileExists(f) == f \in 1..Len(files) /\ files[f].alive

\* Fault of is_member: the query is not filtered by the user's id.
is_member_unfiltered(g, u) == groups[g].members # {}

\* FileGroup.is_member / is_owner / can_manage
is_member(g, u) == u \in groups[g].members
is_owner(g, u) == groups[g].created_by = u
can_manage(g, u) == is_owner(g, u) \/ users[u].is_staff

\* A deleted FileGroup / EncryptedFile row, and the history of a deleted file.
DeletedGroup == [alive |-> FALSE, created_by |-> 0, members |-> {}]
DeletedFile ==
    [alive |-> FALSE, file_size |-> 0, nonce |-> <<>>, tag |-> <<>>,
     uploaded_by |-> 0, group |-> 0]
Forgotten ==
    [file_data |-> <<>>, aes_key |-> <<>>, members |-> {},
     encrypted_data |-> [ciphertext |-> <<>>, nonce |-> <<>>, tag |-> <<>>],
     wrapped |-> {}]

(***************************************************************************)
(* users/views.py                                                          *)
(***************************************************************************)
\* Fault of register: the new private key is also put into the session.
register_with_key(s, password, salt) ==
    /\ Len(users) < MaxUsers
    /\ ~is_authenticated(s)
    /\ users' = Append(users,
                  [password |-> password, is_staff |-> FALSE,
                   public_key |-> public_pem(Len(users) + 1),
                   encrypted_private_key |->
                       _encrypt_private_key(private_pem(Len(users) + 1),
                                            password, salt)])
    /\ session' = [session EXCEPT ![s] =
                      [user |-> Len(users) + 1,
                       private_key |-> private_pem(Len(users) + 1)]]
    /\ resp' = Response("register", s, "redirect", "Welcome")
    /\ UNCHANGED <<groups, files, disk, keys, uploaded>>

\* register: POST with a valid form.  The user row is created, the key pair
\* generated and sealed under the password, and the session logged in.
register(s, password, salt) ==
    /\ Len(users) < MaxUsers
    /\ IF is_authenticated(s)
       THEN /\ resp' = Response("register", s, "redirect", "dashboard")
            /\ UNCHANGED <<db, session, uploaded>>
       ELSE LET id == Len(users) + 1
                row == [password |-> password, is_staff |-> FALSE,
                        public_key |-> public_pem(id),
                        encrypted_private_key |->
                            _encrypt_private_key(private_pem(id), password, salt)]
            IN  /\ users' = Append(users, row)
                /\ session' = [session EXCEPT ![s].user = id]
                /\ resp' = Response("register", s, "redirect", "Welcome")
                /\ UNCHANGED <<groups, files, disk, keys, uploaded>>

\* django.contrib.auth.authenticate(username, password)
authenticate(u, password) ==
    u \in 1..Len(users) /\ users[u].password = password

\* Fault of login_view: a successful login seals the private key again,
\* under a new salt, and saves the user.
login_view_resealing(s, u, password) ==
    /\ ~is_authenticated(s)
    /\ authenticate(u, password)
    /\ Truthy(decrypt_private_key(users[u].encrypted_private_key, password))
    /\ users' = [users EXCEPT ![u].encrypted_private_key =
                    _encrypt_private_key(
                        decrypt_private_key(users[u].encrypted_private_key, password),
                        password, <<200>>)]
    /\ session' = [session EXCEPT ![s] =
                      [user |-> u,
                       private_key |->
                          decrypt_private_key(users[u].encrypted_private_key, password)]]
    /\ resp' = Response("login", s, "redirect", "Welcome back")
    /\ UNCHANGED <<groups, files, disk, keys, uploaded>>

\* login_view: POST.  AuthenticationForm.is_valid() authenticates already.
login_view(s, u, password) ==
    /\ UNCHANGED <<db, uploaded>>
    /\ IF is_authenticated(s)
       THEN /\ resp' = Response("login", s, "redirect", "dashboard")
            /\ UNCHANGED session
       ELSE IF ~authenticate(u, password)
       THEN /\ resp' = Response("login", s, "render", "")
            /\ UNCHANGED session
       ELSE LET private_key == decrypt_private_key(users[u].encrypted_private_key, password)
            IN  IF Truthy(private_key)
                THEN /\ session' = [session EXCEPT ![s] =
                                       [user |-> u, private_key |-> private_key]]
                     /\ resp' = Response("login", s, "redirect", "Welcome back")
                ELSE /\ resp' = Response("login", s, "render",
                                         "Failed to decrypt encryption keys.")
                     /\ UNCHANGED session

\* Fault of logout_view: the user is logged out, 'private_key' is kept.
logout_view_keeps_key(s) ==
    /\ is_authenticated(s)
    /\ session' = [session EXCEPT ![s].user = 0]
    /\ resp' = Response("logout", s, "redirect", "You have been logged out.")
    /\ UNCHANGED <<db, uploaded>>

\* logout_view
logout_view(s) ==
    \/ LoginRequired(s)
    \/ /\ is_authenticated(s)
       /\ session' = [session EXCEPT ![s] = Anonymous]
       /\ resp' = Response("logout", s, "redirect", "You have been logged out.")
       /\ UNCHANGED <<db, uploaded>>

\* The session store drops an expired session.
SessionExpire(s) ==
    /\ session[s] # Anonymous
    /\ session' = [session EXCEPT ![s] = Anonymous]
    /\ resp' = Response("expire", s, "", "")
    /\ UNCHANGED <<db, uploaded>>

(***************************************************************************)
(* users/admin.py: the admin site's user form.                             *)
(***************************************************************************)
\* Add user: a row with a password and no key pair.
AdminAddUser(password) ==
    /\ Len(users) < MaxUsers
    /\ users' = Append(users, [password |-> password, is_staff |-> FALSE,
                               public_key |-> None,
                               encrypted_private_key |-> None])
    /\ resp' = NoResp
    /\ UNCHANGED <<groups, files, disk, keys, session, uploaded>>

\* Change user: the 'Encryption Keys' fieldset lets public_key be cleared or
\* overwritten with any text.
AdminSetPublicKey(u, text) ==
    /\ u \in 1..Len(users)
    /\ users[u].public_key # text
    /\ users' = [users EXCEPT ![u].public_key = text]
    /\ resp' = NoResp
    /\ UNCHANGED <<groups, files, disk, keys, session, uploaded>>

\* Change user: the permissions fieldset sets is_staff.
AdminSetStaff(u) ==
    /\ u \in 1..Len(users)
    /\ ~users[u].is_staff
    /\ users' = [users EXCEPT ![u].is_staff = TRUE]
    /\ resp' = NoResp
    /\ UNCHANGED <<groups, files, disk, keys, session, uploaded>>

(***************************************************************************)
(* groups/views.py, groups/models.py                                       *)
(***************************************************************************)
\* group_create: POST with a valid form.
group_create(s) ==
    \/ LoginRequired(s)
    \/ /\ is_authenticated(s)
       /\ Len(groups) < MaxGroups
       /\ groups' = Append(groups, [alive |-> TRUE,
                                    created_by |-> session[s].user,
                                    members |-> {session[s].user}])
       /\ resp' = Response("group_create", s, "redirect", "created successfully")
       /\ UNCHANGED <<users, files, disk, keys, session, uploaded>>

\* group_edit: POST with a valid form.  Only the name and the description
\* of the group are saved.
group_edit(s, g) ==
    \/ LoginRequired(s)
    \/ /\ is_authenticated(s)
       /\ GroupExists(g)
       /\ UNCHANGED <<db, session, uploaded>>
       /\ IF ~can_manage(g, session[s].user)
          THEN resp' = Response("group_edit", s, "redirect",
                                "You do not have permission to edit this group.")
          ELSE resp' = Response("group_edit", s, "redirect", "updated successfully")

\* group_delete: POST.  Deleting the group cascades to its EncryptedFile
\* rows and their FileEncryptionKey rows; stored .enc files stay on disk.
group_delete(s, g) ==
    \/ LoginRequired(s)
    \/ /\ is_authenticated(s)
       /\ GroupExists(g)
       /\ IF ~can_manage(g, session[s].user)
          THEN /\ resp' = Response("group_delete", s, "redirect",
                             "You do not have permission to delete this group.")
               /\ UNCHANGED <<db, session, uploaded>>
          ELSE /\ groups' = [groups EXCEPT ![g] = DeletedGroup]
               /\ files' = [f \in 1..Len(files) |->
                              IF files[f].group = g THEN DeletedFile ELSE files[f]]
               /\ keys' = {k \in keys : files[k.file].group # g}
               /\ uploaded' = [f \in 1..Len(files) |->
                                 IF files[f].group = g THEN Forgotten ELSE uploaded[f]]
               /\ resp' = Response("group_delete", s, "redirect", "deleted successfully")
               /\ UNCHANGED <<users, disk, session>>

\* FileGroup.add_member(user)
FileGroup_add_member(g, u) ==
    IF ~is_member(g, u)
    THEN [groups EXCEPT ![g].members = @ \cup {u}]
    ELSE groups

\* FileGroup.remove_member(user)
FileGroup_remove_member(g, u) ==
    IF is_member(g, u) /\ ~is_owner(g, u)
    THEN [groups EXCEPT ![g].members = @ \ {u}]
    ELSE groups

\* add_member: POST.  AddMemberForm rejects an unknown username and a user
\* who is a member already.
add_member(s, g, u) ==
    \/ LoginRequired(s)
    \/ /\ is_authenticated(s)
       /\ GroupExists(g)
       /\ UNCHANGED <<users, files, disk, keys, session, uploaded>>
       /\ IF ~can_manage(g, session[s].user)
          THEN /\ resp' = Response("add_member", s, "redirect",
                             "You do not have permission to add members.")
               /\ UNCHANGED groups
          ELSE IF u \notin 1..Len(users) \/ is_member(g, u)
          THEN /\ resp' = Response("add_member", s, "render", "")
               /\ UNCHANGED groups
          ELSE /\ groups' = FileGroup_add_member(g, u)
               /\ resp' = Response("add_member", s, "redirect", "added to group")

\* Fault of remove_member: the envelopes issued to the removed user for the
\* group's files are deleted with the membership.
remove_member_revoking(s, g, u) ==
    /\ is_authenticated(s)
    /\ GroupExists(g)
    /\ u \in 1..Len(users)
    /\ can_manage(g, session[s].user) /\ ~is_owner(g, u)
    /\ groups' = FileGroup_remove_member(g, u)
    /\ keys' = {k \in keys : ~(k.user = u /\ files[k.file].group = g)}
    /\ resp' = Response("remove_member", s, "redirect", "removed from group")
    /\ UNCHANGED <<users, files, disk, session, uploaded>>

\* Fault of remove_member: the owner is removed like any other member.
remove_member_even_owner(s, g, u) ==
    /\ is_authenticated(s)
    /\ GroupExists(g)
    /\ u \in 1..Len(users)
    /\ can_manage(g, session[s].user)
    /\ groups' = [groups EXCEPT ![g].members = @ \ {u}]
    /\ resp' = Response("remove_member", s, "redirect", "removed from group")
    /\ UNCHANGED <<users, files, disk, keys, session, uploaded>>

\* remove_member: POST.
remove_member(s, g, u) ==
    \/ LoginRequired(s)
    \/ /\ is_authenticated(s)
       /\ GroupExists(g)
       /\ u \in 1..Len(users)
       /\ UNCHANGED <<users, files, disk, keys, session, uploaded>>
       /\ IF ~can_manage(g, session[s].user)
          THEN /\ resp' = Response("remove_member", s, "redirect",
                             "You do not have permission to remove members.")
               /\ UNCHANGED groups
          ELSE IF is_owner(g, u)
          THEN /\ resp' = Response("remove_member", s, "redirect",
                             "Cannot remove the group owner.")
               /\ UNCHANGED groups
          ELSE /\ groups' = FileGroup_remove_member(g, u)
               /\ resp' = Response("remove_member", s, "redirect", "removed from group")

(***************************************************************************)
(* files/views.py                                                          *)
(***************************************************************************)
\* group.members.all(): CustomUser.Meta orders by -date_joined, the newest
\* user first.
RECURSIVE Descending(_)
Descending(S) ==
    IF S = {} THEN <<>>
    ELSE LET m == CHOOSE x \in S : \A y \in S : y <= x
         IN  <<m>> \o Descending(S \ {m})

\* Faults of the member query: the owner left out; every user taken.
members_excluding_owner(g) == Descending(groups[g].members \ {groups[g].created_by})
members_of_any_group(g) == Descending(1..Len(users))

members_all(g) == Descending(groups[g].members)

\* Fault of the loop body: the public key is used without the check for None.
WrapForMember_unchecked(f, member, aes_key) ==
    LET encrypted_aes_key ==
            encrypt_aes_key_with_rsa(aes_key,
                                     get_public_key_bytes(users[member].public_key))
    IN  IF ~encrypted_aes_key.ok THEN Raise(encrypted_aes_key.exc)
        ELSE Ok({[file |-> f, user |-> member,
                  encrypted_aes_key |-> encrypted_aes_key.val]})

\* The body of upload_file's loop for one member: the wrapped key to store
\* for the member, nothing for a member without a public key, or the
\* exception encrypt_aes_key_with_rsa raises.
WrapForMember(f, member, aes_key) ==
    LET public_key == get_public_key_bytes(users[member].public_key)
    IN  IF Truthy(public_key)
        THEN LET encrypted_aes_key == encrypt_aes_key_with_rsa(aes_key, public_key)
             IN  IF ~encrypted_aes_key.ok THEN Raise(encrypted_aes_key.exc)
                 ELSE Ok({[file |-> f, user |-> member,
                           encrypted_aes_key |-> encrypted_aes_key.val]})
        ELSE Ok({})

\* The loop of upload_file over the members, from position i on: the wrapped
\* keys of all of them, or the exception that ends the loop.
RECURSIVE WrapForMembers(_, _, _, _)
WrapForMembers(f, members, aes_key, i) ==
    IF i > Len(members) THEN Ok({})
    ELSE LET one == WrapForMember(f, members[i], aes_key)
         IN  IF ~one.ok THEN one
             ELSE LET rest == WrapForMembers(f, members, aes_key, i + 1)
                  IN  IF ~rest.ok THEN rest ELSE Ok(one.val \cup rest.val)

\* FileEncryptionKey.objects.create(..., encrypted_aes_key=encode_for_db(...))
FileEncryptionKey_create(row) ==
    [row EXCEPT !.encrypted_aes_key = encode_for_db(@)]

\* Fault of the key generator: a draw may repeat an earlier one.
DrawnKeys_forgotten == {}

\* The AES keys drawn so far; a new draw differs from all of them.
DrawnKeys == {uploaded[f].aes_key : f \in 1..Len(uploaded)}

\* upload_file: POST with a valid form.  On an exception the except branch
\* deletes the stored file and the row (its keys cascade) and the form is
\* rendered again.
upload_file_upto(s, g, file_data, aes_key, nonce, max_files) ==
    \/ LoginRequired(s)
    \/ /\ is_authenticated(s)
       /\ GroupExists(g)
       /\ Len(files) < max_files
       /\ aes_key \notin DrawnKeys
       /\ UNCHANGED <<users, groups, session>>
       /\ IF ~is_member(g, session[s].user)
          THEN /\ resp' = [Response("upload", s, "redirect",
                             "You are not a member of this group.")
                             EXCEPT !.group = g]
               /\ UNCHANGED <<files, disk, keys, uploaded>>
          ELSE LET encrypted_data == encrypt_file_aes(file_data, aes_key, nonce)
                   id == Len(files) + 1
                   encrypted_file ==
                       [alive |-> TRUE,
                        file_size |-> Len(file_data),
                        nonce |-> encode_for_db(encrypted_data.nonce),
                        tag |-> encode_for_db(encrypted_data.tag),
                        uploaded_by |-> session[s].user,
                        group |-> g]
                   members == members_all(g)
                   wrapped == WrapForMembers(id, members, aes_key, 1)
               IN  IF wrapped.ok
                   THEN /\ files' = Append(files, encrypted_file)
                        /\ disk' = Append(disk, encrypted_data.ciphertext)
                        /\ keys' = keys \cup
                                    {FileEncryptionKey_create(row) : row \in wrapped.val}
                        /\ uploaded' = Append(uploaded,
                                          [file_data |-> file_data,
                                           aes_key |-> aes_key,
                                           members |-> groups[g].members,
                                           encrypted_data |-> encrypted_data,
                                           wrapped |-> wrapped.val])
                        /\ resp' = [Response("upload", s, "redirect",
                                      "uploaded and encrypted for member(s)")
                                      EXCEPT !.group = g, !.file = id,
                                             !.count = Len(members)]
                   ELSE /\ resp' = [Response("upload", s, "render",
                                      "Error uploading file")
                                      EXCEPT !.group = g, !.exc = wrapped.exc]
                        /\ UNCHANGED <<files, disk, keys, uploaded>>

\* upload_file while fewer than MaxFiles files have been uploaded.
upload_file(s, g, file_data, aes_key, nonce) ==
    upload_file_upto(s, g, file_data, aes_key, nonce, MaxFiles)

\* FileEncryptionKey.objects.get(file=f, user=u): the rows that match.
KeysOf(f, u) == {k \in keys : k.file = f /\ k.user = u}

\* The try block of download_file once the FileEncryptionKey row is found
\* and the session holds a private key: the plaintext, or the exception.
DecryptForDownload(f, file_key, private_key_pem) ==
    LET encrypted_aes_key == decode_from_db(file_key.encrypted_aes_key)
    IN  IF ~encrypted_aes_key.ok THEN Raise(encrypted_aes_key.exc)
        ELSE LET aes_key == decrypt_aes_key_with_rsa(encrypted_aes_key.val,
                                                     private_key_pem)
             IN  IF ~aes_key.ok THEN Raise(aes_key.exc)
                 ELSE IF disk[f] = None THEN Raise("No such file")
                 ELSE LET nonce == decode_from_db(files[f].nonce)
                          tag == decode_from_db(files[f].tag)
                      IN  IF ~nonce.ok THEN Raise(nonce.exc)
                          ELSE IF ~tag.ok THEN Raise(tag.exc)
                          ELSE decrypt_file_aes(disk[f], aes_key.val,
                                                nonce.val, tag.val)

\* Fault of download_file: its except branch cleans up as upload_file's
\* does, deleting the envelope that did not decrypt.
download_file_cleaning(s, f) ==
    /\ is_authenticated(s)
    /\ FileExists(f)
    /\ is_member(files[f].group, session[s].user)
    /\ KeysOf(f, session[s].user) # {}
    /\ Truthy(session[s].private_key)
    /\ ~DecryptForDownload(f, CHOOSE k \in KeysOf(f, session[s].user) : TRUE,
                           session[s].private_key).ok
    /\ keys' = keys \ KeysOf(f, session[s].user)
    /\ resp' = [Response("download", s, "redirect", "Error downloading file")
                  EXCEPT !.file = f]
    /\ UNCHANGED <<users, groups, files, disk, session, uploaded>>

\* Fault of download_file: the membership check is left out, the envelope
\* alone decides.
download_file_for_holders(s, f) ==
    /\ is_authenticated(s)
    /\ FileExists(f)
    /\ KeysOf(f, session[s].user) # {}
    /\ Truthy(session[s].private_key)
    /\ LET plaintext == DecryptForDownload(f, CHOOSE k \in KeysOf(f, session[s].user) : TRUE,
                                           session[s].private_key)
       IN  /\ plaintext.ok
           /\ resp' = [Response("download", s, "file", "")
                         EXCEPT !.file = f, !.body = plaintext.val]
    /\ UNCHANGED <<db, session, uploaded>>

\* download_file
download_file(s, f) ==
    \/ LoginRequired(s)
    \/ /\ is_authenticated(s)
       /\ FileExists(f)
       /\ UNCHANGED <<db, session, uploaded>>
       /\ LET user == session[s].user
              r == [Response("download", s, "redirect", "") EXCEPT !.file = f]
          IN  IF ~is_member(files[f].group, user)
              THEN resp' = [r EXCEPT !.msg =
                              "You do not have permission to download this file."]
              ELSE IF KeysOf(f, user) = {}
              THEN resp' = [r EXCEPT !.msg = "You do not have access to this file."]
              ELSE IF ~Truthy(session[s].private_key)
              THEN resp' = [r EXCEPT !.msg = "Session expired. Please login again."]
              ELSE LET file_key == CHOOSE k \in KeysOf(f, user) : TRUE
                       plaintext == DecryptForDownload(f, file_key,
                                                       session[s].private_key)
                   IN  IF plaintext.ok
                       THEN resp' = [r EXCEPT !.status = "file",
                                              !.body = plaintext.val]
                       ELSE resp' = [r EXCEPT !.msg = "Error downloading file",
                                              !.exc = plaintext.exc]

\* Fault of delete_file: the permission check is left out.
delete_file_by_anyone(s, f) ==
    /\ is_authenticated(s)
    /\ FileExists(f)
    /\ disk' = [disk EXCEPT ![f] = None]
    /\ files' = [files EXCEPT ![f] = DeletedFile]
    /\ uploaded' = [uploaded EXCEPT ![f] = Forgotten]
    /\ keys' = {k \in keys : k.file # f}
    /\ resp' = [Response("delete", s, "redirect", "deleted successfully!")
                  EXCEPT !.file = f]
    /\ UNCHANGED <<users, groups, session>>

\* delete_file: POST.
delete_file(s, f) ==
    \/ LoginRequired(s)
    \/ /\ is_authenticated(s)
       /\ FileExists(f)
       /\ UNCHANGED <<users, groups, session>>
       /\ IF session[s].user # files[f].uploaded_by
             /\ ~is_owner(files[f].group, session[s].user)
          THEN /\ resp' = [Response("delete", s, "redirect",
                             "You do not have permission to delete this file.")
                             EXCEPT !.file = f]
               /\ UNCHANGED <<files, disk, keys, uploaded>>
          ELSE /\ disk' = [disk EXCEPT ![f] = None]
               /\ files' = [files EXCEPT ![f] = DeletedFile]
               /\ uploaded' = [uploaded EXCEPT ![f] = Forgotten]
               /\ keys' = {k \in keys : k.file # f}
               /\ resp' = [Response("delete", s, "redirect", "deleted successfully!")
                             EXCEPT !.file = f]

(***************************************************************************)
(* The program: any request of any session, and the admin's edits.         *)
(***************************************************************************)
Next ==
    \/ \E s \in Sessions, pw \in ChosenPasswords, salt \in Salts : register(s, pw, salt)
    \/ \E s \in Sessions, u \in Users, pw \in Passwords : login_view(s, u, pw)
    \/ \E s \in Sessions : logout_view(s)
    \/ \E s \in Sessions : SessionExpire(s)
    \/ \E pw \in ChosenPasswords : AdminAddUser(pw)
    \/ \E u \in Users, text \in {None, MalformedKey} : AdminSetPublicKey(u, text)
    \/ \E u \in Users : AdminSetStaff(u)
    \/ \E s \in Sessions : group_create(s)
    \/ \E s \in Sessions, g \in 1..MaxGroups : group_edit(s, g)
    \/ \E s \in Sessions, g \in 1..MaxGroups : group_delete(s, g)
    \/ \E s \in Sessions, g \in 1..MaxGroups, u \in Users : add_member(s, g, u)
    \/ \E s \in Sessions, g \in 1..MaxGroups, u \in Users : remove_member(s, g, u)
    \/ \E s \in Sessions, g \in 1..MaxGroups, file_data \in Plaintexts,
          aes_key \in AesKeys, nonce \in Nonces :
            upload_file(s, g, file_data, aes_key, nonce)
    \/ \E s \in Sessions, f \in 1..MaxFiles : download_file(s, f)
    \/ \E s \in Sessions, f \in 1..MaxFiles : delete_file(s, f)

Spec == Init /\ [][Next]_vars

(***************************************************************************)
(* Vocabulary of the properties.                                           *)
(***************************************************************************)
\* The FileEncryptionKey rows of a file, and those of a file for a user.
EnvelopesOf(f) == {k \in keys : k.file = f}
EnvelopesFor(f, u) == {k \in keys : k.file = f /\ k.user = u}

\* The private key a user obtains by logging in with their password.
PrivateKeyOf(u) ==
    decrypt_private_key(users[u].encrypted_private_key, users[u].password)

\* What unwrapping a stored envelope with a private key gives.
Unwrap(k, private_key) ==
    LET encrypted_aes_key == decode_from_db(k.encrypted_aes_key)
    IN  IF ~encrypted_aes_key.ok THEN encrypted_aes_key
        ELSE decrypt_aes_key_with_rsa(encrypted_aes_key.val, private_key)

\* A stored public key that load_pem_public_key accepts.
WellFormedKey(public_key) == encrypt_aes_key_with_rsa(<<0>>, public_key).ok

\* The last request was an upload that succeeded / an upload by a member
\* of the group (whether or not it succeeded).
UploadDone == resp.op = "upload" /\ resp.file # 0
UploadTried ==
    resp.op = "upload" /\ resp.msg # "You are not a member of this group."

\* The members of the group of the last upload, those of them without a
\* stored public key, and those with a malformed one.
UploadMembers == groups[resp.group].members
Keyless == {m \in UploadMembers : ~Truthy(users[m].public_key)}
Malformed ==
    {m \in UploadMembers : Truthy(users[m].public_key)
                           /\ ~WellFormedKey(users[m].public_key)}

\* The user who made the last request (requests other than register, login
\* and logout leave the session as it was).
Requester == session[resp.sess].user

(***************************************************************************)
(* C1. Distribution completeness: after a successful upload to a group     *)
(* whose N members all have a stored public key there are exactly N        *)
(* envelopes for the new file, one per member, and each unwraps to the     *)
(* file's AES key with the private key of its member and with no other     *)
(* user's private key.                                                     *)
(***************************************************************************)
C1_DistributionCompleteness ==
    (UploadDone /\ Keyless = {}) =>
        /\ Cardinality(EnvelopesOf(resp.file)) = Cardinality(UploadMembers)
        /\ \A m \in UploadMembers : Cardinality(EnvelopesFor(resp.file, m)) = 1
        /\ \A k \in EnvelopesOf(resp.file) : \A u \in 1..Len(users) :
              LET aes_key == Unwrap(k, PrivateKeyOf(u))
              IN  IF u = k.user
                  THEN aes_key.ok /\ aes_key.val = uploaded[resp.file].aes_key
                  ELSE ~aes_key.ok

C1_Witness ==
    /\ UploadDone
    /\ Keyless = {}
    /\ Cardinality(UploadMembers) = 2
    /\ Cardinality(EnvelopesOf(resp.file)) = 2

(***************************************************************************)
(* C2. Distribution partial-skip: an upload by a member to a group of N    *)
(* members of whom M have no stored public key (the others having          *)
(* well-formed ones) completes, the file row and the ciphertext are kept,  *)
(* and exactly N-M envelopes exist, none for a member without a key.       *)
(***************************************************************************)
C2_PartialSkip ==
    (UploadTried /\ Malformed = {}) =>
        /\ UploadDone
        /\ FileExists(resp.file)
        /\ disk[resp.file] = uploaded[resp.file].encrypted_data.ciphertext
        /\ Cardinality(EnvelopesOf(resp.file))
              = Cardinality(UploadMembers) - Cardinality(Keyless)
        /\ \A m \in Keyless : EnvelopesFor(resp.file, m) = {}

C2_Witness ==
    /\ UploadDone
    /\ Cardinality(UploadMembers) = 2
    /\ Cardinality(Keyless) = 1
    /\ Cardinality(EnvelopesOf(resp.file)) = 1

(***************************************************************************)
(* C3. The number of members a successful upload reports equals the        *)
(* number of envelopes created for the file.                               *)
(***************************************************************************)
C3_ReportedCountIsEnvelopeCount ==
    UploadDone => resp.count = Cardinality(EnvelopesOf(resp.file))

(***************************************************************************)
(* C4. Partial failure policy: when a member's stored public key is        *)
(* malformed, an upload by a member still leaves the file row, its         *)
(* ciphertext and the envelopes of every member with a well-formed key.    *)
(***************************************************************************)
C4_MalformedKeySkipped ==
    (UploadTried /\ Malformed # {}) =>
        /\ UploadDone
        /\ FileExists(resp.file)
        /\ disk[resp.file] # None
        /\ \A m \in UploadMembers :
              WellFormedKey(users[m].public_key) => EnvelopesFor(resp.file, m) # {}

(***************************************************************************)
(* C5. No retroactive grant: every envelope of a stored file is for a user *)
(* who was a member when the file was uploaded, and a download requested   *)
(* by a user who was not a member then returns no plaintext.               *)
(***************************************************************************)
C5_NoRetroactiveGrant ==
    /\ \A k \in keys : k.user \in uploaded[k.file].members
    /\ (resp.op = "download" /\ Requester \notin uploaded[resp.file].members)
          => (resp.status # "file" /\ resp.body = None)

C5_Witness ==
    /\ resp.op = "download"
    /\ Requester \notin uploaded[resp.file].members
    /\ Requester \in groups[files[resp.file].group].members
    /\ Truthy(session[resp.sess].private_key)
    /\ resp.msg = "You do not have access to this file."

(***************************************************************************)
(* The envelopes upload_file created for a file, as stored.                *)
(***************************************************************************)
CreatedEnvelopes(f) == {FileEncryptionKey_create(row) : row \in uploaded[f].wrapped}

\* The current members of the group of the file of the last request.
FileMembers == groups[files[resp.file].group].members

(***************************************************************************)
(* C6 as claimed. A user who was a member with a public key when the file  *)
(* was uploaded and has been removed from the group since still downloads  *)
(* the file while their session holds their private key.                   *)
(***************************************************************************)
C6_RemovedMemberStillDownloads ==
    (/\ resp.op = "download"
     /\ Requester \in uploaded[resp.file].members
     /\ EnvelopesFor(resp.file, Requester) # {}
     /\ Requester \notin FileMembers
     /\ Truthy(session[resp.sess].private_key))
    => (resp.status = "file" /\ resp.body = uploaded[resp.file].file_data)

(***************************************************************************)
(* C6 amended. Removal leaves the envelopes in place: the envelopes of a   *)
(* stored file are always exactly those its upload created, whoever has    *)
(* been removed since.  But download_file refuses a user who is not a      *)
(* current member, with the permission message and no plaintext, whatever  *)
(* envelope and session key they hold.                                     *)
(***************************************************************************)
C6_EnvelopeKeptDownloadRefused ==
    /\ \A f \in 1..Len(files) : files[f].alive => EnvelopesOf(f) = CreatedEnvelopes(f)
    /\ (resp.op = "download" /\ Requester \notin FileMembers)
          => /\ resp.status = "redirect"
             /\ resp.body = None
             /\ resp.msg = "You do not have permission to download this file."

C6_Witness ==
    /\ resp.op = "download"
    /\ Requester \in uploaded[resp.file].members
    /\ EnvelopesFor(resp.file, Requester) # {}
    /\ Requester \notin FileMembers
    /\ Truthy(session[resp.sess].private_key)
    /\ resp.body = None

(***************************************************************************)
(* C7. Session custody: a session's 'private_key' becomes present only in  *)
(* a successful login_view, as the key decrypt_private_key returns for the *)
(* user logged in; it becomes absent only in logout_view or on expiry; no  *)
(* step changes a present key; and download_file reaches its decryption    *)
(* only with the entry present.                                            *)
(***************************************************************************)
C7_SessionCustody ==
    [][\A s \in Sessions :
        /\ (~Truthy(session[s].private_key) /\ Truthy(session'[s].private_key))
              => /\ resp'.op = "login" /\ resp'.sess = s
                 /\ resp'.msg = "Welcome back"
                 /\ session'[s].private_key = PrivateKeyOf(session'[s].user)
        /\ (Truthy(session[s].private_key) /\ ~Truthy(session'[s].private_key))
              => (resp'.op \in {"logout", "expire"} /\ resp'.sess = s)
        /\ (Truthy(session[s].private_key) /\ Truthy(session'[s].private_key))
              => session'[s].private_key = session[s].private_key
        /\ (/\ resp'.op = "download" /\ resp'.sess = s
            /\ (resp'.status = "file" \/ resp'.msg = "Error downloading file"))
              => Truthy(session[s].private_key)
      ]_vars

C7_Witness ==
    /\ resp.op = "login"
    /\ resp.msg = "Welcome back"
    /\ Truthy(session[resp.sess].private_key)
    /\ keys # {}

(***************************************************************************)
(* C8. After logout_view the session holds no 'private_key', and no        *)
(* response to a session without a 'private_key' carries plaintext.        *)
(***************************************************************************)
C8_SecretDestroyedOnLogout ==
    /\ resp.op = "logout" => session[resp.sess] = Anonymous
    /\ (resp.sess \in Sessions /\ ~Truthy(session[resp.sess].private_key))
          => (resp.status # "file" /\ resp.body = None)

C8_Witness ==
    /\ resp.op = "logout"
    /\ \E k \in keys : PrivateKeyOf(k.user) # None

(***************************************************************************)
(* C9. End-to-end round trip: a download by a current member who holds an  *)
(* envelope for the file and a private key in the session returns exactly  *)
(* the uploaded bytes; and the base64 step is lossless: the stored nonce,  *)
(* tag and wrapped keys decode to the bytes that were encoded, as does     *)
(* every sample byte string.                                               *)
(***************************************************************************)
CodecSamples == UNION {[1..n -> {0, 77, 255}] : n \in 0..3}

CodecLossless == \A b \in CodecSamples : decode_from_db(encode_for_db(b)) = Ok(b)

C9_RoundTrip ==
    /\ (/\ resp.op = "download"
        /\ EnvelopesFor(resp.file, Requester) # {}
        /\ Requester \in FileMembers
        /\ Truthy(session[resp.sess].private_key))
       => (resp.status = "file" /\ resp.body = uploaded[resp.file].file_data)
    /\ \A f \in 1..Len(files) : files[f].alive =>
          /\ decode_from_db(files[f].nonce) = Ok(uploaded[f].encrypted_data.nonce)
          /\ decode_from_db(files[f].tag) = Ok(uploaded[f].encrypted_data.tag)
    /\ \A k \in keys : \E row \in uploaded[k.file].wrapped :
          /\ row.user = k.user
          /\ decode_from_db(k.encrypted_aes_key) = Ok(row.encrypted_aes_key)
    /\ CodecLossless

C9_Witness ==
    /\ resp.op = "download"
    /\ resp.status = "file"
    /\ Len(resp.body) = MaxLen
    /\ resp.body = uploaded[resp.file].file_data

(***************************************************************************)
(* Tampering with what is stored.  Someone with access to the database and *)
(* the media directory changes, once per file, the .enc file, the stored   *)
(* nonce or tag text, or a member's stored wrapped key.  Bytes and text    *)
(* symbols are changed by flipping their lowest or highest bit, by         *)
(* dropping the last one or by appending one.                              *)
(***************************************************************************)
FlipLow(x) == IF x % 2 = 0 THEN x + 1 ELSE x - 1

TamperedBytes(b) ==
    {[b EXCEPT ![i] = FlipLow(@)] : i \in 1..Len(b)}
    \cup {[b EXCEPT ![i] = (@ + 128) % 256] : i \in 1..Len(b)}
    \cup {SubSeq(b, 1, Len(b) - 1) : i \in 1..Len(b)}
    \cup {Append(b, 0)}

TamperedText(t) ==
    {[t EXCEPT ![i] = IF @ = Pad THEN 0 ELSE FlipLow(@)] : i \in 1..Len(t)}
    \cup {[t EXCEPT ![i] = IF @ = Pad THEN 0 ELSE (@ + 32) % 64] : i \in 1..Len(t)}
    \cup {SubSeq(t, 1, Len(t) - 1) : i \in 1..Len(t)}
    \cup {Append(t, 0)}

\* Everything stored for the file is as upload_file left it.
Pristine(f) ==
    /\ disk[f] = uploaded[f].encrypted_data.ciphertext
    /\ files[f].nonce = encode_for_db(uploaded[f].encrypted_data.nonce)
    /\ files[f].tag = encode_for_db(uploaded[f].encrypted_data.tag)
    /\ EnvelopesOf(f) = CreatedEnvelopes(f)

TamperCiphertext(f) ==
    /\ FileExists(f) /\ Pristine(f)
    /\ \E ciphertext \in TamperedBytes(disk[f]) :
          disk' = [disk EXCEPT ![f] = ciphertext]
    /\ resp' = NoResp
    /\ UNCHANGED <<users, groups, files, keys, session, uploaded>>

TamperNonce(f) ==
    /\ FileExists(f) /\ Pristine(f)
    /\ \E text \in TamperedText(files[f].nonce) :
          files' = [files EXCEPT ![f].nonce = text]
    /\ resp' = NoResp
    /\ UNCHANGED <<users, groups, disk, keys, session, uploaded>>

TamperTag(f) ==
    /\ FileExists(f) /\ Pristine(f)
    /\ \E text \in TamperedText(files[f].tag) :
          files' = [files EXCEPT ![f].tag = text]
    /\ resp' = NoResp
    /\ UNCHANGED <<users, groups, disk, keys, session, uploaded>>

\* A member's envelope is replaced by another AES key wrapped under the
\* member's public key, so that the key used is not the file's.
TamperEnvelope(k, aes_key) ==
    /\ k \in keys /\ Pristine(k.file)
    /\ aes_key # uploaded[k.file].aes_key
    /\ WellFormedKey(users[k.user].public_key)
    /\ keys' = (keys \ {k}) \cup
                 {FileEncryptionKey_create(
                     [k EXCEPT !.encrypted_aes_key =
                        encrypt_aes_key_with_rsa(aes_key,
                                                 users[k.user].public_key).val])}
    /\ resp' = NoResp
    /\ UNCHANGED <<users, groups, files, disk, session, uploaded>>

NextTamper ==
    \/ \E s \in Sessions, pw \in ChosenPasswords, salt \in Salts : register(s, pw, salt)
    \/ \E s \in Sessions, u \in Users, pw \in Passwords : login_view(s, u, pw)
    \/ \E s \in Sessions : logout_view(s)
    \/ \E s \in Sessions : group_create(s)
    \/ \E s \in Sessions, g \in 1..MaxGroups, u \in Users : add_member(s, g, u)
    \/ \E s \in Sessions, g \in 1..MaxGroups, file_data \in Plaintexts,
          aes_key \in AesKeys, nonce \in Nonces :
            upload_file(s, g, file_data, aes_key, nonce)
    \/ \E s \in Sessions, f \in 1..MaxFiles : download_file(s, f)
    \/ \E f \in 1..MaxFiles : TamperCiphertext(f)
    \/ \E f \in 1..MaxFiles : TamperNonce(f)
    \/ \E f \in 1..MaxFiles : TamperTag(f)
    \/ \E k \in keys, aes_key \in AesKeys : TamperEnvelope(k, aes_key)

SpecTamper == Init /\ [][NextTamper]_vars

(***************************************************************************)
(* What download_file decrypts with for the requester of the last request: *)
(* the AES key the requester's envelope unwraps to under the session key.  *)
(***************************************************************************)
KeyUsed ==
    IF EnvelopesFor(resp.file, Requester) = {} THEN Raise("DoesNotExist")
    ELSE Unwrap(CHOOSE k \in EnvelopesFor(resp.file, Requester) : TRUE,
                session[resp.sess].private_key)

(***************************************************************************)
(* C10 as claimed. Tamper detection: when the stored ciphertext, the       *)
(* stored nonce or the stored tag differs in any way from what the upload  *)
(* stored, or the AES key used is not the file's, a download returns no    *)
(* plaintext at all.                                                       *)
(***************************************************************************)
C10_AnyStoredDifferenceDetected ==
    (/\ resp.op = "download"
     /\ \/ disk[resp.file] # uploaded[resp.file].encrypted_data.ciphertext
        \/ files[resp.file].nonce
              # encode_for_db(uploaded[resp.file].encrypted_data.nonce)
        \/ files[resp.file].tag
              # encode_for_db(uploaded[resp.file].encrypted_data.tag)
        \/ KeyUsed # Ok(uploaded[resp.file].aes_key))
    => (resp.status # "file" /\ resp.body = None)

(***************************************************************************)
(* C10 amended. When the ciphertext, or the bytes the stored nonce or tag  *)
(* decode to, differ from what the upload produced, or the AES key used is *)
(* not the file's, a download returns no plaintext at all; and a download  *)
(* never returns anything but the uploaded bytes.  (A stored text changed  *)
(* only in bits base64 decoding ignores still decodes to the same bytes.)  *)
(***************************************************************************)
C10_TamperDetection ==
    resp.op = "download" =>
        /\ (\/ disk[resp.file] # uploaded[resp.file].encrypted_data.ciphertext
            \/ decode_from_db(files[resp.file].nonce)
                  # Ok(uploaded[resp.file].encrypted_data.nonce)
            \/ decode_from_db(files[resp.file].tag)
                  # Ok(uploaded[resp.file].encrypted_data.tag)
            \/ KeyUsed # Ok(uploaded[resp.file].aes_key))
           => (resp.status # "file" /\ resp.body = None)
        /\ resp.status = "file" => resp.body = uploaded[resp.file].file_data

C10_Witness ==
    /\ resp.op = "download"
    /\ disk[resp.file] # uploaded[resp.file].encrypted_data.ciphertext
    /\ Len(disk[resp.file]) = Len(uploaded[resp.file].encrypted_data.ciphertext)
    /\ resp.msg = "Error downloading file"
    /\ resp.exc = "InvalidTag"

(***************************************************************************)
(* An envelope in the wrong hands.  Someone with access to the database    *)
(* stores the envelope issued to one user under another user's name, so    *)
(* that the other user's download unwraps it with their own private key.   *)
(***************************************************************************)
ReassignEnvelope(k, u) ==
    /\ k \in keys
    /\ u \in 1..Len(users) /\ u # k.user
    /\ KeysOf(k.file, u) = {}
    /\ keys' = (keys \ {k}) \cup {[k EXCEPT !.user = u]}
    /\ resp' = NoResp
    /\ UNCHANGED <<users, groups, files, disk, session, uploaded>>

NextCross ==
    \/ \E s \in Sessions, pw \in ChosenPasswords, salt \in Salts : register(s, pw, salt)
    \/ \E s \in Sessions, u \in Users, pw \in Passwords : login_view(s, u, pw)
    \/ \E s \in Sessions : logout_view(s)
    \/ \E s \in Sessions : group_create(s)
    \/ \E s \in Sessions, g \in 1..MaxGroups, u \in Users : add_member(s, g, u)
    \/ \E s \in Sessions, g \in 1..MaxGroups, file_data \in Plaintexts,
          aes_key \in AesKeys, nonce \in Nonces :
            upload_file(s, g, file_data, aes_key, nonce)
    \/ \E s \in Sessions, f \in 1..MaxFiles : download_file(s, f)
    \/ \E k \in keys, u \in Users : ReassignEnvelope(k, u)

SpecCross == Init /\ [][NextCross]_vars

\* The users under whose public key upload_file wrapped what an envelope holds.
WrappedFor(k) ==
    {row.user : row \in {r \in uploaded[k.file].wrapped :
                            encode_for_db(r.encrypted_aes_key) = k.encrypted_aes_key}}

(***************************************************************************)
(* C11. Cross-key rejection: unwrapping an envelope with the private key   *)
(* of a user other than the one it was wrapped for raises and yields no    *)
(* key; and a download by a user whose envelope was wrapped for someone    *)
(* else returns no plaintext.                                              *)
(***************************************************************************)
C11_CrossKeyRejection ==
    /\ \A k \in keys : \A u \in 1..Len(users) :
          u \notin WrappedFor(k) =>
              LET aes_key == Unwrap(k, PrivateKeyOf(u))
              IN  ~aes_key.ok /\ aes_key.val = None
    /\ (/\ resp.op = "download"
        /\ \E k \in EnvelopesFor(resp.file, Requester) : Requester \notin WrappedFor(k))
          => (resp.status # "file" /\ resp.body = None)

C11_Witness ==
    /\ resp.op = "download"
    /\ \E k \in EnvelopesFor(resp.file, Requester) : Requester \notin WrappedFor(k)
    /\ Requester \in FileMembers
    /\ session[resp.sess].private_key = PrivateKeyOf(Requester)
    /\ resp.msg = "Error downloading file"
    /\ resp.exc = "Decryption failed"

(***************************************************************************)
(* The vault on its own: registrations under any password and salt, and    *)
(* logins with any password typed.                                         *)
(***************************************************************************)
VaultSalts == {<<3>>, <<200>>}

NextVault ==
    \/ \E s \in Sessions, pw \in Passwords, salt \in VaultSalts : register(s, pw, salt)
    \/ \E s \in Sessions, u \in Users, pw \in Passwords : login_view(s, u, pw)
    \/ \E s \in Sessions : logout_view(s)
    \/ \E s \in Sessions : SessionExpire(s)

SpecVault == Init /\ [][NextVault]_vars

\* A private key and a public key are the two halves of one pair: what is
\* wrapped under the public key unwraps under the private key.
KeyPairMatches(private_key, public_key) ==
    \A aes_key \in AesKeys :
        LET wrapped == encrypt_aes_key_with_rsa(aes_key, public_key)
        IN  /\ wrapped.ok
            /\ decrypt_aes_key_with_rsa(wrapped.val, private_key) = Ok(aes_key)

\* Private-key blobs sealed and unsealed apart from any user.
VaultSamples == {private_pem(kp) : kp \in 1..MaxUsers} \cup {<<>>, <<0, 255, 7>>}

(***************************************************************************)
(* C12. Vault round trip: unsealing what _encrypt_private_key sealed       *)
(* returns exactly the sealed private key under the sealing password and   *)
(* no key bytes (None) under any other; a user who registered with a       *)
(* password and logs in with it has in the session the private key that    *)
(* matches their stored public key.                                        *)
(***************************************************************************)
C12_VaultRoundTrip ==
    /\ \A B \in VaultSamples, salt \in VaultSalts, PW \in Passwords, PW2 \in Passwords :
          decrypt_private_key(_encrypt_private_key(B, PW, salt), PW2)
              = IF PW2 = PW THEN B ELSE None
    /\ \A u \in 1..Len(users), PW2 \in Passwords :
          decrypt_private_key(users[u].encrypted_private_key, PW2)
              = IF PW2 = users[u].password THEN private_pem(u) ELSE None
    /\ (resp.op = "login" /\ resp.msg = "Welcome back")
          => KeyPairMatches(session[resp.sess].private_key,
                            users[Requester].public_key)

C12_Witness ==
    /\ resp.op = "login" /\ resp.msg = "Welcome back"
    /\ Requester = 2
    /\ users[1].password # users[2].password
    /\ KeyPairMatches(session[resp.sess].private_key, users[2].public_key)
    /\ ~KeyPairMatches(session[resp.sess].private_key, users[1].public_key)

(***************************************************************************)
(* Unsealing that fails.  The admin's user form creates users without a    *)
(* key pair, changes a user's password (the sealed blob stays sealed under *)
(* the old one) and edits or clears the stored encrypted_private_key.      *)
(***************************************************************************)
\* The blobs _encrypt_private_key can have produced for a user.
SealedBlobs(u) ==
    {_encrypt_private_key(private_pem(u), pw, salt) : pw \in Passwords, salt \in Salts}

AdminSetPassword(u, password) ==
    /\ u \in 1..Len(users)
    /\ users[u].password # password
    /\ users' = [users EXCEPT ![u].password = password]
    /\ resp' = NoResp
    /\ UNCHANGED <<groups, files, disk, keys, session, uploaded>>

AdminSetEncryptedPrivateKey(u, text) ==
    /\ u \in 1..Len(users)
    /\ users[u].encrypted_private_key \in SealedBlobs(u)
    /\ text \in TamperedText(users[u].encrypted_private_key) \cup {None}
    /\ users' = [users EXCEPT ![u].encrypted_private_key = text]
    /\ resp' = NoResp
    /\ UNCHANGED <<groups, files, disk, keys, session, uploaded>>

\* The texts the admin may put in place of a user's sealed blob.
BlobEdits(u) == TamperedText(users[u].encrypted_private_key) \cup {None}

NextUnseal ==
    \/ \E s \in Sessions, pw \in ChosenPasswords, salt \in Salts : register(s, pw, salt)
    \/ \E s \in Sessions, u \in Users, pw \in Passwords : login_view(s, u, pw)
    \/ \E s \in Sessions : logout_view(s)
    \/ \E pw \in ChosenPasswords : AdminAddUser(pw)
    \/ \E u \in Users, pw \in Passwords : AdminSetPassword(u, pw)
    \/ \E u \in 1..Len(users) : \E text \in BlobEdits(u) :
          AdminSetEncryptedPrivateKey(u, text)

SpecUnseal == Init /\ [][NextUnseal]_vars

\* The stored blob holds the bytes of a blob sealed under the password.
SealedUnder(encrypted_private_key, u, password) ==
    /\ Truthy(encrypted_private_key)
    /\ \E salt \in Salts :
          b64decode(encrypted_private_key)
              = b64decode(_encrypt_private_key(private_pem(u), password, salt))

(***************************************************************************)
(* C13. Unseal failures are reported alike: decrypt_private_key returns    *)
(* None, and nothing else, whenever the password is not the one the blob   *)
(* was sealed under, the blob is corrupted or the blob is absent; and      *)
(* login_view answers every such failure with the same response, which     *)
(* carries no exception.                                                   *)
(***************************************************************************)
C13_UnsealFailuresAlike ==
    /\ \A u \in 1..Len(users), pw \in Passwords :
          LET private_key == decrypt_private_key(users[u].encrypted_private_key, pw)
          IN  IF SealedUnder(users[u].encrypted_private_key, u, pw)
              THEN private_key = private_pem(u)
              ELSE private_key = None
    /\ (resp.op = "login" /\ resp.msg \notin {"", "dashboard", "Welcome back"})
          => /\ resp = Response("login", resp.sess, "render",
                                "Failed to decrypt encryption keys.")
             /\ session[resp.sess] = Anonymous

C13_Witness ==
    /\ resp.op = "login"
    /\ resp.msg = "Failed to decrypt encryption keys."
    /\ Len(users) = 2
    /\ users[1].encrypted_private_key # None
    /\ ~SealedUnder(users[1].encrypted_private_key, 1, 1)
    /\ users[2].encrypted_private_key = None

(***************************************************************************)
(* C14. Each stored file has at most one envelope per user, every envelope *)
(* is for a user who was a member of the file's group when the file was    *)
(* uploaded, and an envelope once created is never changed: in every step  *)
(* an envelope either stays as it is or goes together with its file, and   *)
(* a file that exists already gets no new envelope.                        *)
(***************************************************************************)
C14_EnvelopesUniqueAndImmutable ==
    /\ [](\A k1 \in keys, k2 \in keys :
            (k1.file = k2.file /\ k1.user = k2.user) => k1 = k2)
    /\ [](\A k \in keys : /\ files[k.file].alive
                          /\ k.user \in uploaded[k.file].members
                          /\ k \in CreatedEnvelopes(k.file))
    /\ [][/\ \A k \in keys : k \in keys' \/ ~files'[k.file].alive
          /\ \A k \in keys' : k.file \in 1..Len(files) => k \in keys
         ]_vars

C14_Witness ==
    /\ resp.op = "remove_member"
    /\ resp.msg = "removed from group"
    /\ \E k \in keys : /\ k.user \notin groups[files[k.file].group].members
                       /\ Unwrap(k, PrivateKeyOf(k.user)) = Ok(uploaded[k.file].aes_key)

(***************************************************************************)
(* Several files: uploads of up to MaxKeyFiles files to the group, and     *)
(* downloads and deletions of them.                                        *)
(***************************************************************************)
MaxKeyFiles == 2

NextKeys ==
    \/ \E s \in Sessions, pw \in ChosenPasswords, salt \in Salts : register(s, pw, salt)
    \/ \E s \in Sessions, u \in Users, pw \in ChosenPasswords : login_view(s, u, pw)
    \/ \E s \in Sessions : logout_view(s)
    \/ \E s \in Sessions : group_create(s)
    \/ \E s \in Sessions, g \in 1..MaxGroups, u \in Users : add_member(s, g, u)
    \/ \E s \in Sessions, g \in 1..MaxGroups, file_data \in Plaintexts,
          aes_key \in AesKeys, nonce \in Nonces :
            upload_file_upto(s, g, file_data, aes_key, nonce, MaxKeyFiles)
    \/ \E s \in Sessions, f \in 1..MaxKeyFiles : download_file(s, f)
    \/ \E s \in Sessions, f \in 1..MaxKeyFiles : delete_file(s, f)

SpecKeys == Init /\ [][NextKeys]_vars

\* The AES keys the envelopes of a file unwrap to, each under the private
\* key of the user it is stored for.
FileKeys(f) == {Unwrap(k, PrivateKeyOf(k.user)) : k \in EnvelopesOf(f)}

\* The stored ciphertext, nonce and tag of a file decrypt under the key.
ProducedUnder(f, aes_key) ==
    LET nonce == decode_from_db(files[f].nonce)
        tag == decode_from_db(files[f].tag)
    IN  /\ disk[f] # None /\ nonce.ok /\ tag.ok
        /\ decrypt_file_aes(disk[f], aes_key, nonce.val, tag.val).ok

StoredFiles == {f \in 1..Len(files) : files[f].alive}

(***************************************************************************)
(* C15. Exactly one FileKey per file: all envelopes of a stored file       *)
(* unwrap to one and the same AES key, the key drawn by the file's upload, *)
(* under which the stored ciphertext decrypts; and no two stored files     *)
(* have the same key.                                                      *)
(***************************************************************************)
C15_OneFileKeyPerFile ==
    /\ \A f \in StoredFiles :
          /\ FileKeys(f) = {Ok(uploaded[f].aes_key)}
          /\ ProducedUnder(f, uploaded[f].aes_key)
    /\ \A f1 \in StoredFiles, f2 \in StoredFiles :
          f1 # f2 => FileKeys(f1) \cap FileKeys(f2) = {}

C15_Witness ==
    /\ Cardinality(StoredFiles) = 2
    /\ \A f \in StoredFiles : Cardinality(EnvelopesOf(f)) = 2
    /\ resp.op = "download" /\ resp.status = "file"

(***************************************************************************)
(* What is kept between requests, by kind: byte strings (the .enc files,   *)
(* the session's entries, the body of a response) and base64 texts (the    *)
(* nonce, tag and wrapped key columns).                                    *)
(***************************************************************************)
StoredBytes ==
    {disk[f] : f \in 1..Len(disk)}
    \cup {session[s].private_key : s \in Sessions}
    \cup {resp.body}

StoredTexts ==
    {files[f].nonce : f \in StoredFiles} \cup {files[f].tag : f \in StoredFiles}
    \cup {k.encrypted_aes_key : k \in keys}
    \cup {users[u].public_key : u \in 1..Len(users)}
    \cup {users[u].encrypted_private_key : u \in 1..Len(users)}

\* A byte string or a base64 text is the secret itself, in clear.
BytesInClear(bytes, secret) == bytes = secret
TextInClear(text, secret) ==
    \/ text = secret
    \/ text = encode_for_db(secret)
    \/ (text # None /\ decode_from_db(text) = Ok(secret))

(***************************************************************************)
(* C16. The plaintext FileKey is never persisted, returned or reported:    *)
(* nothing stored (file on disk, EncryptedFile row, FileEncryptionKey row, *)
(* user row, session) and nothing in a response is the AES key of a stored *)
(* file, as bytes or base64-encoded; the messages are fixed texts and the  *)
(* texts of the exceptions raised, which are none of them a key.           *)
(***************************************************************************)
C16_FileKeyNeverStored ==
    \A f \in StoredFiles :
        /\ \A bytes \in StoredBytes : ~BytesInClear(bytes, uploaded[f].aes_key)
        /\ \A text \in StoredTexts : ~TextInClear(text, uploaded[f].aes_key)

C16_Witness ==
    /\ resp.op = "download" /\ resp.status = "file"
    /\ KeyUsed = Ok(uploaded[resp.file].aes_key)
    /\ Cardinality(EnvelopesOf(resp.file)) = 2

(***************************************************************************)
(* Storage at rest.  The database rows and the media files are durable.    *)
(* Where request.session is kept is set by SESSION_ENGINE in the project's *)
(* settings module; following the specification, the session store is not  *)
(* durable storage.                                                        *)
(***************************************************************************)
SessionStoreIsDurable == FALSE

AtRest ==
    StoredTexts
    \cup {disk[f] : f \in 1..Len(disk)}
    \cup (IF SessionStoreIsDurable
          THEN {session[s].private_key : s \in Sessions}
          ELSE {})

ExceptionText(exc) == IF exc = "InvalidTag" THEN "" ELSE exc

ShownMessage == <<resp.msg, ExceptionText(resp.exc)>>

(***************************************************************************)
(* C18. Authentication failures are shown as a fixed message only: when a  *)
(* download fails because the envelope does not unwrap under the session   *)
(* key or the tag does not verify, and when a login fails, the message     *)
(* shown contains no text of the underlying exception.                     *)
(***************************************************************************)
C18_NoExceptionTextShown ==
    (resp.op \in {"download", "login"} /\ resp.status \in {"redirect", "render"})
        => ShownMessage[2] = ""

(***************************************************************************)
(* Failing requests of every kind: logins with a wrong password, with a    *)
(* blob sealed under another password or with no blob; downloads without   *)
(* an envelope, without a session key, with an envelope wrapped for        *)
(* someone else and with a tag that does not verify.                       *)
(***************************************************************************)
NextFail ==
    \/ \E s \in Sessions, pw \in ChosenPasswords, salt \in Salts : register(s, pw, salt)
    \/ \E s \in Sessions, u \in Users, pw \in Passwords : login_view(s, u, pw)
    \/ \E s \in Sessions : logout_view(s)
    \/ \E s \in Sessions : group_create(s)
    \/ \E s \in Sessions, g \in 1..MaxGroups, u \in Users : add_member(s, g, u)
    \/ \E s \in Sessions, g \in 1..MaxGroups, file_data \in Plaintexts,
          aes_key \in AesKeys, nonce \in Nonces :
            upload_file(s, g, file_data, aes_key, nonce)
    \/ \E s \in Sessions, f \in 1..MaxFiles : download_file(s, f)
    \/ \E f \in 1..MaxFiles : TamperTag(f)
    \/ \E k \in keys, u \in Users : ReassignEnvelope(k, u)
    \/ \E u \in Users, pw \in Passwords : AdminSetPassword(u, pw)
    \/ \E u \in Users : AdminSetEncryptedPrivateKey(u, None)

SpecFail == Init /\ [][NextFail]_vars

\* The step is a login_view that did not log in / a download_file that
\* returned no file.
FailedLogin == resp'.op = "login" /\ resp'.msg # "Welcome back"
FailedDownload == resp'.op = "download" /\ resp'.status # "file"

(***************************************************************************)
(* C19. An authentication failure never corrupts state: a login_view that  *)
(* fails and a download_file that fails leave every user, group, file and  *)
(* envelope row, every stored ciphertext and every session as they were.   *)
(***************************************************************************)
C19_FailuresChangeNothing ==
    [][(FailedLogin \/ FailedDownload)
          => UNCHANGED <<users, groups, files, disk, keys, session>>]_vars

C19_Witness ==
    /\ resp.op = "download"
    /\ resp.msg = "Error downloading file"
    /\ resp.exc = "InvalidTag"
    /\ \E u \in 1..Len(users) :
          /\ u # Requester
          /\ authenticate(u, users[u].password)
          /\ decrypt_private_key(users[u].encrypted_private_key, users[u].password) = None

(***************************************************************************)
(* The step is a request to one of the application's views other than      *)
(* register (or the expiry of a session).                                  *)
(***************************************************************************)
ViewsButRegister ==
    {"login", "logout", "upload", "download", "delete", "group_create",
     "group_edit", "group_delete", "add_member", "remove_member",
     "login_required", "expire"}

\* The key pair columns of the user rows that exist are left as they are.
KeyPairsUnchanged ==
    \A u \in 1..Len(users) :
        /\ users'[u].public_key = users[u].public_key
        /\ users'[u].encrypted_private_key = users[u].encrypted_private_key

(***************************************************************************)
(* C20. A user's key pair is written only at registration: register gives  *)
(* the new user a public key and a sealed private key and leaves the other *)
(* users' alone; no login, logout, upload, download, delete, group         *)
(* operation, add_member or remove_member changes any user's public_key or *)
(* encrypted_private_key; and only upload_file creates envelopes.          *)
(***************************************************************************)
C20_KeyPairWrittenOnlyAtRegistration ==
    [][/\ resp'.op \in ViewsButRegister => KeyPairsUnchanged /\ Len(users') = Len(users)
       /\ resp'.op = "register" =>
             /\ KeyPairsUnchanged
             /\ \A u \in (Len(users) + 1)..Len(users') :
                   /\ KeyPairMatches(decrypt_private_key(users'[u].encrypted_private_key,
                                                         users'[u].password),
                                     users'[u].public_key)
       /\ keys' \ keys # {} => resp'.op = "upload"
      ]_vars

C20_Witness ==
    /\ resp.op = "group_delete"
    /\ resp.msg = "deleted successfully"
    /\ Len(users) = 2
    /\ \A u \in 1..Len(users) :
          KeyPairMatches(PrivateKeyOf(u), users[u].public_key)

(***************************************************************************)
(* upload_file step by step.  The requests of other sessions and the       *)
(* admin's edits run between the database accesses of an upload; the       *)
(* locals of an upload in flight are kept in its entry of uploaded:        *)
(* pc is the position in the view, cache the rows the members query has    *)
(* fetched (members._result_cache), i the position of the loop in them,    *)
(* members and keyed the group's members and those of them with a stored   *)
(* public key when the query ran, before the envelopes when the view       *)
(* was entered.                                                            *)
(***************************************************************************)
\* upload_file, lines 30-67: the membership check, the AES key, the
\* encryption, the EncryptedFile row and the ciphertext on disk.
upload_file_begin_upto(s, g, file_data, aes_key, nonce, max_files) ==
    \/ LoginRequired(s)
    \/ /\ is_authenticated(s)
       /\ GroupExists(g)
       /\ Len(files) < max_files
       /\ aes_key \notin DrawnKeys
       /\ UNCHANGED <<users, groups, keys, session>>
       /\ IF ~is_member(g, session[s].user)
          THEN /\ resp' = [Response("upload", s, "redirect",
                             "You are not a member of this group.")
                             EXCEPT !.group = g]
               /\ UNCHANGED <<files, disk, uploaded>>
          ELSE LET encrypted_data == encrypt_file_aes(file_data, aes_key, nonce)
                   encrypted_file ==
                       [alive |-> TRUE,
                        file_size |-> Len(file_data),
                        nonce |-> encode_for_db(encrypted_data.nonce),
                        tag |-> encode_for_db(encrypted_data.tag),
                        uploaded_by |-> session[s].user,
                        group |-> g]
               IN  /\ files' = Append(files, encrypted_file)
                   /\ disk' = Append(disk, encrypted_data.ciphertext)
                   /\ uploaded' = Append(uploaded,
                                     [file_data |-> file_data,
                                      aes_key |-> aes_key,
                                      members |-> {},
                                      encrypted_data |-> encrypted_data,
                                      wrapped |-> {},
                                      sess |-> s, pc |-> "query",
                                      cache |-> <<>>, i |-> 0,
                                      keyed |-> {}, before |-> keys])
                   /\ UNCHANGED resp

\* upload_file entered while fewer than MaxFiles files have been uploaded.
upload_file_begin(s, g, file_data, aes_key, nonce) ==
    upload_file_begin_upto(s, g, file_data, aes_key, nonce, MaxFiles)

\* The upload f is in flight at position pc.
InFlight(f, pc) ==
    /\ f \in 1..Len(uploaded)
    /\ "pc" \in DOMAIN uploaded[f]
    /\ uploaded[f].pc = pc

\* group.members.all() evaluated: the rows of the members, newest first,
\* each with its columns as stored at the time of the query.
FetchMembers(g) ==
    [i \in 1..Len(members_all(g)) |->
        [user |-> members_all(g)[i],
         public_key |-> users[members_all(g)[i]].public_key]]

\* upload_file, line 71: `for member in members` evaluates the lazy query
\* once and keeps the rows.
upload_file_query(f) ==
    /\ InFlight(f, "query")
    /\ uploaded' = [uploaded EXCEPT ![f] =
                      [@ EXCEPT !.pc = "loop", !.i = 1,
                                !.cache = FetchMembers(files[f].group),
                                !.members = groups[files[f].group].members,
                                !.keyed = {m \in groups[files[f].group].members :
                                              Truthy(users[m].public_key)}]]
    /\ UNCHANGED <<users, groups, files, disk, keys, session, resp>>

\* Fault of the except branch: the row and the stored file are left.
upload_file_except_leaking(f, exc) ==
    /\ resp' = [Response("upload", uploaded[f].sess, "render", "Error uploading file")
                  EXCEPT !.group = files[f].group, !.file = f, !.exc = exc]
    /\ uploaded' = [uploaded EXCEPT ![f].pc = "failed"]
    /\ UNCHANGED <<users, groups, files, disk, keys, session>>

\* upload_file, lines 94-99: the except branch deletes the stored file and
\* the EncryptedFile row, whose FileEncryptionKey rows go with it
\* (on_delete=CASCADE).
upload_file_except(f, exc) ==
    /\ resp' = [Response("upload", uploaded[f].sess, "render", "Error uploading file")
                  EXCEPT !.group = files[f].group, !.file = f, !.exc = exc]
    /\ disk' = [disk EXCEPT ![f] = None]
    /\ files' = [files EXCEPT ![f] = DeletedFile]
    /\ keys' = {k \in keys : k.file # f}
    /\ uploaded' = [uploaded EXCEPT ![f].pc = "failed"]
    /\ UNCHANGED <<users, groups, session>>

\* upload_file, lines 71-86: one turn of the loop, for the next fetched row.
upload_file_wrap(f) ==
    /\ InFlight(f, "loop")
    /\ uploaded[f].i <= Len(uploaded[f].cache)
    /\ LET member == uploaded[f].cache[uploaded[f].i]
           public_key == get_public_key_bytes(member.public_key)
           encrypted_aes_key ==
               encrypt_aes_key_with_rsa(uploaded[f].aes_key, public_key)
           row == [file |-> f, user |-> member.user,
                   encrypted_aes_key |-> encrypted_aes_key.val]
       IN  IF ~Truthy(public_key)
           THEN /\ uploaded' = [uploaded EXCEPT ![f].i = @ + 1]
                /\ UNCHANGED <<users, groups, files, disk, keys, session, resp>>
           ELSE IF ~encrypted_aes_key.ok
           THEN upload_file_except(f, encrypted_aes_key.exc)
           ELSE /\ keys' = keys \cup {FileEncryptionKey_create(row)}
                /\ uploaded' = [uploaded EXCEPT ![f].i = @ + 1,
                                                ![f].wrapped = @ \cup {row}]
                /\ UNCHANGED <<users, groups, files, disk, session, resp>>

\* Fault of the count: members.count() asks the database again.
upload_file_count_requerying(f) ==
    /\ InFlight(f, "loop")
    /\ uploaded[f].i > Len(uploaded[f].cache)
    /\ resp' = [Response("upload", uploaded[f].sess, "redirect",
                  "uploaded and encrypted for member(s)")
                  EXCEPT !.group = files[f].group, !.file = f,
                         !.count = Cardinality(groups[files[f].group].members)]
    /\ uploaded' = [uploaded EXCEPT ![f].pc = "done"]
    /\ UNCHANGED <<users, groups, files, disk, keys, session>>

\* upload_file, lines 88-92: after the loop, members.count() is the number
\* of rows fetched (the query has been evaluated) and the view redirects.
upload_file_count(f) ==
    /\ InFlight(f, "loop")
    /\ uploaded[f].i > Len(uploaded[f].cache)
    /\ resp' = [Response("upload", uploaded[f].sess, "redirect",
                  "uploaded and encrypted for member(s)")
                  EXCEPT !.group = files[f].group, !.file = f,
                         !.count = Len(uploaded[f].cache)]
    /\ uploaded' = [uploaded EXCEPT ![f].pc = "done"]
    /\ UNCHANGED <<users, groups, files, disk, keys, session>>

NextUpload ==
    \/ \E s \in Sessions, pw \in ChosenPasswords, salt \in Salts : register(s, pw, salt)
    \/ \E s \in Sessions, u \in Users, pw \in ChosenPasswords : login_view(s, u, pw)
    \/ \E s \in Sessions : logout_view(s)
    \/ \E pw \in ChosenPasswords : AdminAddUser(pw)
    \/ \E u \in Users, text \in {None, MalformedKey} : AdminSetPublicKey(u, text)
    \/ \E s \in Sessions : group_create(s)
    \/ \E s \in Sessions, g \in 1..MaxGroups, u \in Users : add_member(s, g, u)
    \/ \E s \in Sessions, g \in 1..MaxGroups, u \in Users : remove_member(s, g, u)
    \/ \E s \in Sessions, g \in 1..MaxGroups, file_data \in Plaintexts,
          aes_key \in AesKeys, nonce \in Nonces :
            upload_file_begin(s, g, file_data, aes_key, nonce)
    \/ \E f \in 1..MaxFiles : upload_file_query(f)
    \/ \E f \in 1..MaxFiles : upload_file_wrap(f)
    \/ \E f \in 1..MaxFiles : upload_file_count(f)

SpecUpload == Init /\ [][NextUpload]_vars

\* The users who hold an envelope of a file.
Recipients(f) == {k.user : k \in EnvelopesOf(f)}

(***************************************************************************)
(* C21. The recipients of one upload are a single snapshot of the group:   *)
(* whatever add_member, remove_member and key edits run while an upload is *)
(* in flight, the users who hold an envelope of the uploaded file are the  *)
(* members who had a stored public key at the moment the upload ran its    *)
(* members query, and the count the upload reports is the number of        *)
(* members at that same moment.                                            *)
(***************************************************************************)
C21_RecipientsAreOneSnapshot ==
    \A f \in 1..Len(uploaded) :
        /\ InFlight(f, "loop") => Recipients(f) \subseteq uploaded[f].keyed
        /\ InFlight(f, "done") =>
              /\ Recipients(f) = uploaded[f].keyed
              /\ (resp.op = "upload" /\ resp.file = f)
                    => resp.count = Cardinality(uploaded[f].members)

C21_Witness ==
    \E f \in 1..Len(uploaded) :
        /\ InFlight(f, "done")
        /\ resp.op = "upload" /\ resp.file = f /\ resp.count = 2
        /\ Recipients(f) = {1, 2}
        /\ groups[files[f].group].members = {1}

(***************************************************************************)
(* C22. download_file returns the plaintext only to a requester who is a   *)
(* member of the file's group, has an envelope for the file and whose      *)
(* session holds a private key; it checks membership first, then the       *)
(* envelope, then the session key, and answers the first check that fails; *)
(* every answer other than the file is a redirect without content.         *)
(***************************************************************************)
C22_DownloadOnlyWhenEntitled ==
    resp.op = "download" =>
        LET f == resp.file
            member == is_member(files[f].group, Requester)
            envelope == EnvelopesFor(f, Requester) # {}
            private_key == Truthy(session[resp.sess].private_key)
        IN  /\ resp.status = "file" => member /\ envelope /\ private_key
            /\ resp.status # "file" => resp.status = "redirect" /\ resp.body = None
            /\ ~member =>
                  resp.msg = "You do not have permission to download this file."
            /\ (member /\ ~envelope) =>
                  resp.msg = "You do not have access to this file."
            /\ (member /\ envelope /\ ~private_key) =>
                  resp.msg = "Session expired. Please login again."
            /\ (member /\ envelope /\ private_key) =>
                  resp.status = "file" \/ resp.msg = "Error downloading file"

C22_Witness ==
    /\ resp.op = "download"
    /\ resp.status = "file"
    /\ resp.body = uploaded[resp.file].file_data
    /\ Len(resp.body) = MaxLen
    /\ Requester # files[resp.file].uploaded_by

\* download_file answered that the session has expired.
SessionExpiredShown ==
    resp.op = "download" /\ resp.msg = "Session expired. Please login again."

(***************************************************************************)
(* C23. A session authenticated by register or by login_view holds the     *)
(* decrypted private key of its user, and download_file never answers      *)
(* 'Session expired. Please login again.' to a session that is logged in.  *)
(***************************************************************************)
C23_AuthenticatedSessionHoldsKey ==
    /\ \A s \in Sessions :
          is_authenticated(s) =>
              /\ Truthy(session[s].private_key)
              /\ session[s].private_key = PrivateKeyOf(session[s].user)
    /\ ~(SessionExpiredShown /\ is_authenticated(resp.sess))

(***************************************************************************)
(* Uploads that fail in the loop: up to MaxKeyFiles uploads, in steps, to  *)
(* groups whose members' public keys the admin overwrites with text that   *)
(* is no PEM or with a PEM.                                                *)
(***************************************************************************)
NextAbort ==
    \/ \E s \in Sessions, pw \in ChosenPasswords, salt \in Salts : register(s, pw, salt)
    \/ \E pw \in ChosenPasswords : AdminAddUser(pw)
    \/ \E u \in Users : \E text \in {MalformedKey, public_pem(u)} :
          AdminSetPublicKey(u, text)
    \/ \E s \in Sessions : group_create(s)
    \/ \E s \in Sessions, g \in 1..MaxGroups, u \in Users : add_member(s, g, u)
    \/ \E s \in Sessions, g \in 1..MaxGroups, file_data \in Plaintexts,
          aes_key \in AesKeys, nonce \in Nonces :
            upload_file_begin_upto(s, g, file_data, aes_key, nonce, MaxKeyFiles)
    \/ \E f \in 1..MaxKeyFiles : upload_file_query(f)
    \/ \E f \in 1..MaxKeyFiles : upload_file_wrap(f)
    \/ \E f \in 1..MaxKeyFiles : upload_file_count(f)

SpecAbort == Init /\ [][NextAbort]_vars

\* What is stored of the file f: its row, its ciphertext, its envelopes.
StoredOf(f) ==
    <<files[f].alive, disk[f] # None, EnvelopesOf(f)>>

(***************************************************************************)
(* C24. A failed upload leaves no partial state: when upload_file returns  *)
(* after an exception raised once the EncryptedFile row existed, the row,  *)
(* the ciphertext on disk and every envelope created for the file are      *)
(* gone, and the step that handles the exception leaves the user rows, the *)
(* groups and everything stored of the other files as they were: the       *)
(* envelopes that existed when the upload began are still there, those of  *)
(* other failed uploads excepted.                                          *)
(***************************************************************************)
C24_FailedUploadLeavesNothing ==
    /\ [](\A f \in 1..Len(uploaded) :
             InFlight(f, "failed") => StoredOf(f) = <<FALSE, FALSE, {}>>)
    /\ [][\A f \in 1..Len(uploaded) :
             (InFlight(f, "loop") /\ uploaded'[f].pc = "failed") =>
                 /\ keys' = keys \ EnvelopesOf(f)
                 /\ {k \in uploaded[f].before : files'[k.file].alive} \subseteq keys'
                 /\ \A h \in (1..Len(files)) \ {f} :
                       files'[h] = files[h] /\ disk'[h] = disk[h]
                 /\ Len(files') = Len(files)
                 /\ UNCHANGED <<users, groups, session>>]_vars

C24_Witness ==
    \E f \in 1..Len(uploaded) :
        /\ InFlight(f, "failed")
        /\ resp.op = "upload" /\ resp.file = f
        /\ resp.msg = "Error uploading file"
        /\ uploaded[f].wrapped # {}
        /\ keys # {}

(***************************************************************************)
(* delete_file requested with GET: the permission check, then the          *)
(* confirmation page.                                                      *)
(***************************************************************************)
delete_file_get(s, f) ==
    \/ LoginRequired(s)
    \/ /\ is_authenticated(s)
       /\ FileExists(f)
       /\ UNCHANGED <<db, session, uploaded>>
       /\ IF session[s].user # files[f].uploaded_by
             /\ ~is_owner(files[f].group, session[s].user)
          THEN resp' = [Response("delete", s, "redirect",
                          "You do not have permission to delete this file.")
                          EXCEPT !.file = f]
          ELSE resp' = [Response("delete", s, "render", "") EXCEPT !.file = f]

NextDelete ==
    \/ Next
    \/ \E s \in Sessions, f \in 1..MaxFiles : delete_file_get(s, f)

SpecDelete == Init /\ [][NextDelete]_vars

\* The step is a delete_file request for the file f; its requester may
\* delete the file.
DeleteRequested(f) == resp'.op = "delete" /\ resp'.file = f
MayDelete(f) ==
    \/ session[resp'.sess].user = files[f].uploaded_by
    \/ is_owner(files[f].group, session[resp'.sess].user)

(***************************************************************************)
(* C25. delete_file removes a file only on a POST by its uploader or by    *)
(* the owner of its group, and then the row, the ciphertext and every      *)
(* envelope of the file are gone; a request by anyone else and a GET leave *)
(* the file, its ciphertext and its envelopes as they were; and every      *)
(* FileEncryptionKey refers to an EncryptedFile that exists.               *)
(***************************************************************************)
C25_DeleteOnlyByUploaderOrOwner ==
    /\ [](\A k \in keys : FileExists(k.file))
    /\ [][\A f \in 1..Len(files) :
             (files[f].alive /\ DeleteRequested(f)) =>
                 IF MayDelete(f) /\ resp'.status # "render"
                 THEN /\ resp'.msg = "deleted successfully!"
                      /\ ~files'[f].alive
                      /\ disk'[f] = None
                      /\ {k \in keys' : k.file = f} = {}
                      /\ keys' = keys \ EnvelopesOf(f)
                 ELSE /\ resp'.msg # "deleted successfully!"
                      /\ UNCHANGED <<files, disk, keys>>]_vars

C25_Witness ==
    /\ resp.op = "delete"
    /\ resp.msg = "deleted successfully!"
    /\ ~files[resp.file].alive
    /\ disk[resp.file] = None
    /\ GroupExists(1)
    /\ Requester # groups[1].created_by
    /\ Cardinality(groups[1].members) = 2

\* The owner of a group.
Owner(g) == groups[g].created_by

(***************************************************************************)
(* C26. The owner of a group is always one of its members: whatever        *)
(* group_create, add_member and remove_member requests the owner and staff *)
(* users make, created_by is in members; an upload by the owner is never   *)
(* refused for lack of membership; and a successful upload to the group    *)
(* leaves an envelope for the owner when the owner has a public key.       *)
(***************************************************************************)
C26_OwnerIsMember ==
    /\ \A g \in 1..Len(groups) : groups[g].alive => is_member(g, Owner(g))
    /\ (resp.op = "upload" /\ resp.group # 0 /\ Requester = Owner(resp.group))
          => resp.msg # "You are not a member of this group."
    /\ (UploadDone /\ Truthy(users[Owner(resp.group)].public_key))
          => EnvelopesFor(resp.file, Owner(resp.group)) # {}

C26_Witness ==
    /\ resp.op = "remove_member"
    /\ resp.msg = "Cannot remove the group owner."
    /\ GroupExists(1)
    /\ Requester # Owner(1)
    /\ users[Requester].is_staff
    /\ is_member(1, Owner(1))

=============================================================================
